---- MODULE Spec2Model ----
(***************************************************************************)
(* A model of scrapepdf.py: calc_lines (line clustering), TextArea (area   *)
(* accumulation and distance), the special actions run on each item, and   *)
(* TextGrouper (merge_item, group), together with the call of clear_areas  *)
(* made by the example scripts.                                            *)
(*                                                                         *)
(* Numbers.  The program computes with floats read from integer-valued XML *)
(* attributes.  The only non-integer values it produces are line centres   *)
(* and half-heights ((top + bottom) / 2, repeatedly averaged).  They are   *)
(* kept here multiplied by Scale, a power of two large enough that every   *)
(* halving is exact, so comparisons are those of the program.              *)
(***************************************************************************)
EXTENDS Integers, Sequences, FiniteSets, TLC

\* Largest number of fragments handed to one call of calc_lines / group.
MaxItems == 3

\* Centres and half-heights are stored multiplied by Scale.
Scale == 2 ^ (MaxItems + 2)
Half == Scale \div 2

None == "None"

Max(a, b) == IF a > b THEN a ELSE b
Min(a, b) == IF a < b THEN a ELSE b
Abs(a) == IF a < 0 THEN 0 - a ELSE a

(***************************************************************************)
(* DimensionedElement                                                      *)
(***************************************************************************)
bottom(item) == item.top + item.height
right(item) == item.left + item.width

(***************************************************************************)
(* Sorting.  list.sort() and sorted() are stable: elements with equal keys *)
(* keep their order.  keys[i] is the key (a tuple of integers) of seq[i].  *)
(***************************************************************************)
LexLess(a, b) ==
    \E i \in 1..Len(a) : a[i] < b[i] /\ \A j \in 1..(i - 1) : a[j] = b[j]

\* Place x, with key kx, after the elements of the sorted list whose key is
\* not greater.
InsertSorted(seq, keys, x, kx) ==
    LET n == Cardinality({j \in 1..Len(seq) : ~LexLess(kx, keys[j])})
    IN  [seq  |-> SubSeq(seq, 1, n) \o <<x>> \o SubSeq(seq, n + 1, Len(seq)),
         keys |-> SubSeq(keys, 1, n) \o <<kx>> \o SubSeq(keys, n + 1, Len(keys))]

RECURSIVE SortLoop(_, _, _, _)
SortLoop(seq, keys, i, acc) ==
    IF i > Len(seq) THEN acc.seq
    ELSE SortLoop(seq, keys, i + 1, InsertSorted(acc.seq, acc.keys, seq[i], keys[i]))

StableSort(seq, keys) == SortLoop(seq, keys, 1, [seq |-> <<>>, keys |-> <<>>])

\* centres.sort() and lines.sort(): tuples compare lexicographically.
SortTuples(ts) == StableSort(ts, ts)

\* sorted(items, key=lambda x: (x.top, x.left))
TopLeftKey(item) == <<item.top, item.left>>

\* Mutant: sorted by left alone.
SortTopLeftByLeft(items) == StableSort(items, [i \in 1..Len(items) |-> <<items[i].left>>])

SortTopLeft(items) == StableSort(items, [i \in 1..Len(items) |-> TopLeftKey(items[i])])

\* line.sort(key = lambda x: x.left)
SortLeft(line) == StableSort(line, [i \in 1..Len(line) |-> <<line[i].left>>])

(***************************************************************************)
(* calc_lines, first half: the line bands (centre, half-height).           *)
(***************************************************************************)
ItemCentre(item) == (item.top + bottom(item)) * Half
ItemHalfHeight(item) == (bottom(item) - item.top) * Half

Centres(items) ==
    SortTuples([i \in 1..Len(items) |-> <<ItemCentre(items[i]), ItemHalfHeight(items[i])>>])

\* One turn of "for line in centres": st = [curline, lines].
BandStep(st, line) ==
    LET dist == line[1] - st.curline[1]
        wid  == Max(line[2], st.curline[2])
    IN  IF dist < wid
        THEN [curline |-> <<(line[1] + st.curline[1]) \div 2, wid>>,
              lines   |-> st.lines]
        ELSE [curline |-> line,
              lines   |-> Append(st.lines, st.curline)]

RECURSIVE BandLoop(_, _, _)
BandLoop(centres, k, st) ==
    IF k > Len(centres) THEN st
    ELSE BandLoop(centres, k + 1, BandStep(st, centres[k]))

\* Lines 197-213; items is not empty.
Bands(items) ==
    LET centres == Centres(items)
        st == BandLoop(centres, 1, [curline |-> centres[1], lines |-> <<>>])
    IN  SortTuples(Append(st.lines, st.curline))

(***************************************************************************)
(* calc_lines, second half: the sweep that assigns the items to the bands. *)
(* st = [groups, linenum, curgroup, exhausted]: groups is the list of      *)
(* lists being built; linenum counts from 0 as in the program; curgroup is *)
(* the index in groups of the list curgroup refers to, or 0 for None;      *)
(* exhausted records the items for which the while loop ran off the end of *)
(* the bands (the program keeps no such record: it only observes the exit  *)
(* taken).                                                                 *)
(***************************************************************************)
Contained(item, band) == Abs(ItemCentre(item) - band[1]) < band[2]
AboveBand(item, band) == item.top * Scale < band[1]

\* "while linenum < len(lines)" for one item.
RECURSIVE AssignItem(_, _, _)
AssignItem(st, item, lines) ==
    IF ~(st.linenum < Len(lines))
    THEN [st EXCEPT !.exhausted = Append(@, item)]
    ELSE LET band == lines[st.linenum + 1]
         IN  IF Contained(item, band)
             THEN IF st.curgroup = 0
                  THEN [st EXCEPT !.groups = Append(@, <<item>>),
                                  !.curgroup = Len(st.groups) + 1]
                  ELSE [st EXCEPT !.groups[st.curgroup] = Append(@, item)]
             ELSE IF AboveBand(item, band)
             THEN [st EXCEPT !.groups = Append(@, <<item>>),
                             !.curgroup = 0]
             ELSE AssignItem([st EXCEPT !.curgroup = 0,
                                        !.linenum = @ + 1], item, lines)

SweepInit == [groups |-> <<>>, linenum |-> 0, curgroup |-> 0, exhausted |-> <<>>]

RECURSIVE SweepLoop(_, _, _, _)
SweepLoop(sorted, k, st, lines) ==
    IF k > Len(sorted) THEN st
    ELSE SweepLoop(sorted, k + 1, AssignItem(st, sorted[k], lines), lines)

\* The whole of calc_lines on a non-empty list: the returned groups.
calc_lines(items) ==
    SweepLoop(SortTopLeft(items), 1, SweepInit, Bands(items)).groups

(***************************************************************************)
(* Text.  A text is a sequence of characters; " " is whitespace and "*"    *)
(* stands for the bullet glyph U+F0B7.                                     *)
(***************************************************************************)
IsSpace(c) == c = " "
Bullet == "*"

RECURSIVE lstrip(_)
lstrip(t) ==
    IF Len(t) > 0 /\ IsSpace(t[1]) THEN lstrip(Tail(t)) ELSE t

RECURSIVE rstrip(_)
rstrip(t) ==
    IF Len(t) > 0 /\ IsSpace(t[Len(t)]) THEN rstrip(SubSeq(t, 1, Len(t) - 1)) ELSE t

strip(t) == rstrip(lstrip(t))

startswith(t, c) == Len(t) > 0 /\ t[1] = c
endswith(t, c) == Len(t) > 0 /\ t[Len(t)] = c

\* pattern.search(text) for a compiled pattern without metacharacters.
search(pat, t) ==
    \E k \in 0..(Len(t) - Len(pat)) : SubSeq(t, k + 1, k + Len(pat)) = pat

(***************************************************************************)
(* props dictionaries: functions whose domain is the set of keys present.  *)
(***************************************************************************)
EmptyProps == [k \in {} |-> None]
SetProp(props, key, val) ==
    [k \in DOMAIN props \cup {key} |-> IF k = key THEN val ELSE props[k]]
\* props.get(key, None)
GetProp(props, key) == IF key \in DOMAIN props THEN props[key] ELSE None

(***************************************************************************)
(* The special actions, in the order of TextGrouper.special_fns.           *)
(***************************************************************************)
BulletFollow == 300
ColonFollow == 300

\* act_ignore_empty: TRUE when IgnoreItem is raised.
act_ignore_empty(item) == Len(strip(item.text)) = 0

act_weights(item) ==
    LET p1 == IF "b" \in item.tags THEN SetProp(item.props, "bold", TRUE) ELSE item.props
        p2 == IF "i" \in item.tags THEN SetProp(p1, "italic", TRUE) ELSE p1
    IN  [item EXCEPT !.props = p2]

\* A rule is [regex, pat, label]: a string (compared after strip) or a
\* compiled pattern (searched for).
RuleMatches(rule, text) ==
    IF rule.regex THEN search(rule.pat, text) ELSE strip(rule.pat) = text

RECURSIVE FirstMatch(_, _, _)
FirstMatch(patterns, k, text) ==
    IF k > Len(patterns) THEN 0
    ELSE IF RuleMatches(patterns[k], text) THEN k
    ELSE FirstMatch(patterns, k + 1, text)

act_patterns(item, patterns) ==
    LET k == FirstMatch(patterns, 1, strip(item.text))
    IN  IF k = 0 THEN item
        ELSE [item EXCEPT !.props = SetProp(@, "type", patterns[k].label)]

act_bullet(item) ==
    LET ltext == lstrip(item.text)
    IN  IF startswith(ltext, Bullet)
        THEN LET rest == Tail(ltext)
                 p1 == SetProp(item.props, "startitem", TRUE)
                 p2 == IF strip(rest) = <<>> THEN SetProp(p1, "rhsfollow", BulletFollow)
                                             ELSE p1
             IN  [item EXCEPT !.text = rest, !.props = p2]
        ELSE item

act_colon_end(item) ==
    IF endswith(strip(item.text), ":")
    THEN [item EXCEPT !.props = SetProp(@, "rhsfollow", ColonFollow)]
    ELSE item

\* The body of "for special_fn in self.special_fns" for an item that is not
\* ignored; item.props has been reset to {}.
Annotate(item, patterns) ==
    act_colon_end(act_bullet(act_patterns(act_weights([item EXCEPT !.props = EmptyProps]),
                                      patterns)))

(***************************************************************************)
(* TextArea                                                                *)
(***************************************************************************)
\* grab is [left, right, top, bottom], indexed from 1 here.
RhsGrab(props) == IF "rhsfollow" \in DOMAIN props THEN props["rhsfollow"] ELSE 0

MergeProps(aprops, iprops) ==
    [k \in DOMAIN aprops \cup DOMAIN iprops |->
        IF k \in DOMAIN aprops THEN aprops[k] ELSE iprops[k]]

\* Mutant: the bottom edge follows the item added last.
add_last_bottom(area, item) ==
    [area EXCEPT !.items  = Append(@, item),
                 !.left   = Min(@, item.left),
                 !.right  = Max(@, right(item)),
                 !.top    = Min(@, item.top),
                 !.bottom = bottom(item),
                 !.grab   = <<0, RhsGrab(item.props), 0, 0>>,
                 !.props  = MergeProps(@, item.props)]

\* Mutant: the allowance is only ever set, never reset.
add_keep_grab(area, item) ==
    [area EXCEPT !.items  = Append(@, item),
                 !.left   = Min(@, item.left),
                 !.right  = Max(@, right(item)),
                 !.top    = Min(@, item.top),
                 !.bottom = Max(@, bottom(item)),
                 !.grab   = IF "rhsfollow" \in DOMAIN item.props
                            THEN <<0, RhsGrab(item.props), 0, 0>> ELSE @,
                 !.props  = MergeProps(@, item.props)]

add(area, item) ==
    [area EXCEPT !.items  = Append(@, item),
                 !.left   = Min(@, item.left),
                 !.right  = Max(@, right(item)),
                 !.top    = Min(@, item.top),
                 !.bottom = Max(@, bottom(item)),
                 !.grab   = <<0, RhsGrab(item.props), 0, 0>>,
                 !.props  = MergeProps(@, item.props)]

\* TextArea(item); lines is None until assign_lines (assigned = FALSE).
TextArea(item) ==
    add([left |-> item.left, right |-> right(item),
             top |-> item.top, bottom |-> bottom(item),
             grab |-> <<0, 0, 0, 0>>, items |-> <<>>,
             assigned |-> FALSE, lines |-> <<>>,
             props |-> EmptyProps], item)

hdist(area, item) ==
    LET d == IF area.left < item.left
             THEN item.left - area.right - area.grab[2]
             ELSE area.left - right(item) - area.grab[1]
    IN  Max(d, 0)

vdist(area, item) ==
    LET d == IF area.top < item.top
             THEN item.top - area.bottom - area.grab[4]
             ELSE area.top - bottom(item) - area.grab[3]
    IN  Max(d, 0)

\* TextArea.dist: <<hdist, vdist, hdist + vdist>>
dist(area, item) ==
    <<hdist(area, item), vdist(area, item), hdist(area, item) + vdist(area, item)>>

assign_lines(area) ==
    [area EXCEPT !.assigned = TRUE, !.lines = calc_lines(area.items)]

(***************************************************************************)
(* TextGrouper.merge_item                                                  *)
(***************************************************************************)
\* Mutant: an area without a type takes any item.
TypeSkipsTypedAreasOnly(area, item) ==
    /\ GetProp(item.props, "type") # None
    /\ GetProp(area.props, "type") # None
    /\ GetProp(area.props, "type") # item.props["type"]

\* Mutant: only areas without a type are passed over.
TypeSkipsUntypedAreasOnly(area, item) ==
    /\ GetProp(item.props, "type") # None
    /\ GetProp(area.props, "type") = None

\* The "continue" of lines 418-420.
TypeSkips(area, item) ==
    /\ GetProp(item.props, "type") # None
    /\ GetProp(area.props, "type") # item.props["type"]

\* Mutant: on equal distances the later area wins.
ClosestStepLatest(closest, num, area, item) ==
    IF TypeSkips(area, item) THEN closest
    ELSE LET d == dist(area, item)
         IN  IF closest = <<>> THEN <<num, d[3], d[1], d[2]>>
             ELSE IF closest[2] >= d[3] THEN <<num, d[3], d[1], d[2]>>
             ELSE closest

\* closest is <<>> for None, else <<num, dist, hdist, vdist>>; num from 1 here.
ClosestStep(closest, num, area, item) ==
    IF TypeSkips(area, item) THEN closest
    ELSE LET d == dist(area, item)
         IN  IF closest = <<>> THEN <<num, d[3], d[1], d[2]>>
             ELSE IF closest[2] > d[3] THEN <<num, d[3], d[1], d[2]>>
             ELSE closest

RECURSIVE ClosestLoop(_, _, _, _)
ClosestLoop(areas_, item, num, closest) ==
    IF num > Len(areas_) THEN closest
    ELSE ClosestLoop(areas_, item, num + 1,
                     ClosestStep(closest, num, areas_[num], item))

\* Lines 428-430: TRUE when a new area is made.
Rejects(closest, item) ==
    \/ closest = <<>>
    \/ closest[3] > item.size
    \/ closest[4] > item.height

\* The index of the area the item is added to, or 0 for a new area.
MergeTarget(areas_, item) ==
    IF Len(areas_) = 0 THEN 0
    ELSE LET closest == ClosestLoop(areas_, item, 1, <<>>)
         IN  IF Rejects(closest, item) THEN 0 ELSE closest[1]

\* Lines 431-435 (and 413): t = 0 makes a new area.
MergeInto(areas_, item, t) ==
    IF t = 0 THEN Append(areas_, TextArea(item))
    ELSE [areas_ EXCEPT ![t] = add(@, item)]

merge_item(areas_, item) == MergeInto(areas_, item, MergeTarget(areas_, item))

(***************************************************************************)
(* TextGrouper.group, as the pure function of its input that it is.        *)
(***************************************************************************)
RECURSIVE Flatten(_)
Flatten(ls) == IF ls = <<>> THEN <<>> ELSE Head(ls) \o Flatten(Tail(ls))

\* Lines 443-446, for a non-empty list.
TextInLines(textitems) ==
    LET ls == calc_lines(textitems)
    IN  Flatten([k \in 1..Len(ls) |-> SortLeft(ls[k])])

\* One turn of "for item in text_in_lines".
ProcessItem(areas_, patterns_, item) ==
    IF act_ignore_empty(item) THEN areas_
    ELSE merge_item(areas_, Annotate(item, patterns_))

RECURSIVE ProcessAll(_, _, _)
ProcessAll(areas_, patterns_, q) ==
    IF q = <<>> THEN areas_
    ELSE ProcessAll(ProcessItem(areas_, patterns_, Head(q)), patterns_, Tail(q))

AssignAll(areas_) == [k \in 1..Len(areas_) |-> assign_lines(areas_[k])]

group(areas_, patterns_, textitems) ==
    AssignAll(ProcessAll(areas_, patterns_, TextInLines(textitems)))

(***************************************************************************)
(* The pages handed to group().  A fragment is a position and a content    *)
(* (text and inline style tags); FragPositions and FragContents list the   *)
(* ones used.  A page is a list of distinct fragments in document order;   *)
(* document order is the order of the fragment numbers, which is unrelated *)
(* to position (the program's sorts are stable, so it decides the outcome  *)
(* only between fragments with equal top and left).  Every fragment has    *)
(* the same width, height and font                                         *)
(* size: gaps of 1, 2 and 4 across and of 0, 3 and 4 down lie on both      *)
(* sides of the merge thresholds.                                          *)
(***************************************************************************)
FragTops == <<1, 0, 7>>
FragLefts == <<2, 0, 5>>
FragContents ==
    << [text |-> <<"a">>,       tags |-> {}],
       [text |-> <<" ", "H">>,  tags |-> {"b"}],
       [text |-> <<"C", ":">>,  tags |-> {"i"}],
       [text |-> <<" ">>,       tags |-> {}] >>
FragWidth == 1
FragHeight == 3
FragSize == 1

NFrags == Len(FragTops) * Len(FragLefts) * Len(FragContents)

\* Fragment number n (from 1), as the Text object made for it; id is its
\* place in the page.
Frag(n, id) ==
    LET k == n - 1
        t == (k % Len(FragTops)) + 1
        l == ((k \div Len(FragTops)) % Len(FragLefts)) + 1
        c == (k \div (Len(FragTops) * Len(FragLefts))) + 1
    IN  [id |-> id, top |-> FragTops[t], left |-> FragLefts[l],
         width |-> FragWidth, height |-> FragHeight, size |-> FragSize,
         text |-> FragContents[c].text, tags |-> FragContents[c].tags,
         props |-> EmptyProps]

\* The Text objects of a page given as the list of its fragment numbers.
TextItems(page_) == [k \in 1..Len(page_) |-> Frag(page_[k], k)]

\* The rules registered by add_patterns: a string and a compiled pattern.
Rules ==
    << [regex |-> FALSE, pat |-> <<"H", " ">>, label |-> "heading"],
       [regex |-> TRUE,  pat |-> <<"C">>,      label |-> "colhead"] >>

(***************************************************************************)
(* State.                                                                  *)
(*   pc        where the caller of the TextGrouper is                      *)
(*   page      the fragment numbers of the page's text elements read so    *)
(*             far, in document order                                      *)
(*   areas     TextGrouper.areas                                           *)
(*   patterns  TextGrouper.patterns                                        *)
(*   text_in_lines     the part of text_in_lines that group() has yet to process   *)
(*   error     the exception that ended the call, or None                  *)
(*   last      what the last step did: for a turn of group()'s loop, the   *)
(*             item as annotated, the areas before it, and the index of    *)
(*             the area it was added to (0: a new area); for a call of     *)
(*             clear_areas, the areas before it.  History only.            *)
(*   frame     the locals of a call of calc_lines made on its own          *)
(*   twin      two calls of group() compared                               *)
(***************************************************************************)
VARIABLES pc, page, areas, patterns, text_in_lines, error, last, frame, twin

vars == <<pc, page, areas, patterns, text_in_lines, error, last, frame, twin>>

NoLast == [kind |-> "none", item |-> <<>>, before |-> <<>>, target |-> 0]
NoFrame == [items |-> <<>>, lines |-> <<>>, todo |-> <<>>, st |-> SweepInit,
            log |-> <<>>, result |-> <<>>]
NoTwin == [page |-> <<>>, extra |-> <<>>, without |-> <<>>, with |-> <<>>]

\* TextGrouper.__init__
Init ==
    /\ pc = "new"
    /\ page = <<>>
    /\ areas = <<>>
    /\ patterns = <<>>
    /\ text_in_lines = <<>>
    /\ error = None
    /\ last = NoLast
    /\ frame = NoFrame
    /\ twin = NoTwin

\* grouper.add_patterns(...), which the callers do before they group a page.
add_patterns ==
    /\ pc = "new"
    /\ patterns' = patterns \o Rules
    /\ pc' = "idle"
    /\ UNCHANGED <<page, areas, text_in_lines, error, last, frame, twin>>

\* PdfToHTMLOutputParser.text(page) comes to the next text element.
ReadText ==
    /\ pc = "idle"
    /\ Len(page) < MaxItems
    /\ \E n \in 1..NFrags :
         /\ page # <<>> => n > page[Len(page)]
         /\ page' = Append(page, n)
    /\ UNCHANGED <<pc, areas, patterns, text_in_lines, error, last, frame, twin>>

\* group(textitems) up to the start of its main loop.  calc_lines raises
\* IndexError at centres[0] for an empty list.
GroupBegin ==
    /\ pc = "idle"
    /\ LET textitems == TextItems(page)
       IN  IF textitems = <<>>
         THEN /\ pc' = "raised"
              /\ error' = "IndexError"
              /\ UNCHANGED text_in_lines
         ELSE /\ pc' = "grouping"
              /\ text_in_lines' = TextInLines(textitems)
              /\ UNCHANGED error
    /\ UNCHANGED <<page, areas, patterns, last, frame, twin>>

\* One turn of "for item in text_in_lines".
GroupItem ==
    /\ pc = "grouping"
    /\ text_in_lines # <<>>
    /\ LET item == Head(text_in_lines)
           ann  == Annotate(item, patterns)
           t    == MergeTarget(areas, ann)
       IN  IF act_ignore_empty(item)
           THEN /\ areas' = areas
                /\ last' = [kind |-> "ignored", item |-> item, before |-> areas,
                            target |-> 0]
           ELSE /\ areas' = MergeInto(areas, ann, t)
                /\ last' = [kind |-> "merged", item |-> ann, before |-> areas,
                            target |-> t]
    /\ text_in_lines' = Tail(text_in_lines)
    /\ UNCHANGED <<pc, page, patterns, error, frame, twin>>

\* The loop is over: assign_lines() on every area, and group() returns.
GroupFinish ==
    /\ pc = "grouping"
    /\ text_in_lines = <<>>
    /\ areas' = AssignAll(areas)
    /\ pc' = "grouped"
    /\ UNCHANGED <<page, patterns, text_in_lines, error, last, frame, twin>>

\* grouper.clear_areas(), as the example scripts call it before they read a
\* page, or called once a page has been grouped.  TextGrouper defines no
\* such attribute: the call raises AttributeError and changes nothing.
clear_areas ==
    /\ \/ pc \in {"new", "idle"} /\ page = <<>>
       \/ pc = "grouped"
    /\ pc' = "raised"
    /\ error' = "AttributeError"
    /\ last' = [kind |-> "clear_areas", item |-> <<>>, before |-> areas, target |-> 0]
    /\ UNCHANGED <<page, areas, patterns, text_in_lines, frame, twin>>

Next ==
    \/ add_patterns
    \/ ReadText
    \/ GroupBegin
    \/ GroupItem
    \/ GroupFinish
    \/ clear_areas

Spec == Init /\ [][Next]_vars

(***************************************************************************)
(* calc_lines called on its own, followed step by step.  The items are     *)
(* any list, in any order, of up to MaxItems fragments whose top, height   *)
(* and left are drawn from the sets below (heights of 0 included: the      *)
(* attributes are only required not to be negative).                       *)
(*   frame.items   the argument                                            *)
(*   frame.lines   the bands (lines 197-213)                               *)
(*   frame.todo    the part of sorted(items) the sweep has yet to visit    *)
(*   frame.st      groups, linenum, curgroup (and the items the while loop *)
(*                 ran out of bands for)                                   *)
(*   frame.log     for each item visited, the exit its while loop took:    *)
(*                 the band it stopped at (linenum), whether by the        *)
(*                 containment test, the item-above-band branch or by      *)
(*                 running out of bands, and the index in groups of the    *)
(*                 list it was appended to (0 for none)                    *)
(*   frame.result  the value returned                                      *)
(***************************************************************************)
LineTops == {0, 1, 3}
LineHeights == {0, 2, 4}
LineLefts == {0, 1}

LineItem(t, h, l, id) ==
    [id |-> id, top |-> t, left |-> l, width |-> FragWidth, height |-> h,
     size |-> FragSize, text |-> <<"a">>, tags |-> {}, props |-> EmptyProps]

InitLines ==
    /\ pc = "read"
    /\ page = <<>>
    /\ areas = <<>>
    /\ patterns = <<>>
    /\ text_in_lines = <<>>
    /\ error = None
    /\ last = NoLast
    /\ frame = NoFrame
    /\ twin = NoTwin

\* The caller puts one more item in the list.
ClRead ==
    /\ pc = "read"
    /\ Len(frame.items) < MaxItems
    /\ \E t \in LineTops, h \in LineHeights, l \in LineLefts :
         frame' = [frame EXCEPT !.items = Append(@, LineItem(t, h, l, Len(@) + 1))]
    /\ UNCHANGED <<pc, page, areas, patterns, text_in_lines, error, last, twin>>

\* calc_lines(items) up to line 213; centres[0] raises IndexError for [].
ClBands ==
    /\ pc = "read"
    /\ IF frame.items = <<>>
       THEN /\ pc' = "raised"
            /\ error' = "IndexError"
            /\ UNCHANGED frame
       ELSE /\ pc' = "sweep"
            /\ frame' = [frame EXCEPT !.lines = Bands(frame.items),
                                      !.todo = SortTopLeft(frame.items),
                                      !.st = SweepInit]
            /\ UNCHANGED error
    /\ UNCHANGED <<page, areas, patterns, text_in_lines, last, twin>>

\* The exit taken by the while loop that took the sweep from st to st2.
SweepExit(st2, item, lines) ==
    IF ~(st2.linenum < Len(lines))
    THEN [item |-> item, band |-> st2.linenum, how |-> "exhausted", group |-> 0]
    ELSE IF Contained(item, lines[st2.linenum + 1])
    THEN [item |-> item, band |-> st2.linenum, how |-> "contained",
          group |-> st2.curgroup]
    ELSE [item |-> item, band |-> st2.linenum, how |-> "above",
          group |-> Len(st2.groups)]

\* One turn of "for item in sorted(items, ...)" (lines 221-240).
ClSweep ==
    /\ pc = "sweep"
    /\ frame.todo # <<>>
    /\ LET item == Head(frame.todo)
           st2  == AssignItem(frame.st, item, frame.lines)
       IN  frame' = [frame EXCEPT !.st = st2,
                                  !.todo = Tail(@),
                                  !.log = Append(@, SweepExit(st2, item, frame.lines))]
    /\ UNCHANGED <<pc, page, areas, patterns, text_in_lines, error, last, twin>>

\* return groups
ClReturn ==
    /\ pc = "sweep"
    /\ frame.todo = <<>>
    /\ pc' = "returned"
    /\ frame' = [frame EXCEPT !.result = frame.st.groups]
    /\ UNCHANGED <<page, areas, patterns, text_in_lines, error, last, twin>>

NextLines ==
    \/ ClRead
    \/ ClBands
    \/ ClSweep
    \/ ClReturn

SpecLines == InitLines /\ [][NextLines]_vars

(***************************************************************************)
(* calc_lines on up to SweepItems fragments of one column, of heights that *)
(* differ enough for a tall fragment to start above the band of shorter    *)
(* ones without being contained in it.                                     *)
(***************************************************************************)
SweepItems == 4
SweepTops == {0, 1, 2}
SweepHeights == {1, 2, 5}

SwRead ==
    /\ pc = "read"
    /\ Len(frame.items) < SweepItems
    /\ \E t \in SweepTops, h \in SweepHeights :
         frame' = [frame EXCEPT !.items = Append(@, LineItem(t, h, 0, Len(@) + 1))]
    /\ UNCHANGED <<pc, page, areas, patterns, text_in_lines, error, last, twin>>

NextSweep ==
    \/ SwRead
    \/ ClBands
    \/ ClSweep
    \/ ClReturn

SpecSweep == InitLines /\ [][NextSweep]_vars

(***************************************************************************)
(* group() on a page, and on the same page with one more fragment whose    *)
(* text is empty or blank, each on a TextGrouper of its own with the same  *)
(* rules.  The fragments of the page are numbered from 1 in both calls and *)
(* the extra fragment is numbered 0; it is the last in document order.     *)
(*   twin.page     the page (not empty)                                    *)
(*   twin.extra    the extra fragment, as a list of one                    *)
(*   twin.without  the areas after group(page)                             *)
(*   twin.with     the areas after group(page + extra)                     *)
(***************************************************************************)
TwinTops == {0, 3, 5}
TwinLefts == {0, 4}
TwinHeight == 8
TwinTexts == {<<"a">>, <<"*", "a", ":">>}
BlankTexts == {<<>>, <<" ">>}

TwinItem(t, l, txt, id) ==
    [id |-> id, top |-> t, left |-> l, width |-> FragWidth, height |-> TwinHeight,
     size |-> FragSize, text |-> txt, tags |-> {}, props |-> EmptyProps]

InitTwin ==
    /\ pc = "read"
    /\ page = <<>>
    /\ areas = <<>>
    /\ patterns = Rules
    /\ text_in_lines = <<>>
    /\ error = None
    /\ last = NoLast
    /\ frame = NoFrame
    /\ twin = NoTwin

\* One more fragment with text on the page.
TwinRead ==
    /\ pc = "read"
    /\ Len(twin.page) < MaxItems - 1
    /\ \E t \in TwinTops, l \in TwinLefts, txt \in TwinTexts :
         twin' = [twin EXCEPT !.page = Append(@, TwinItem(t, l, txt, Len(@) + 1))]
    /\ UNCHANGED <<pc, page, areas, patterns, text_in_lines, error, last, frame>>

\* The fragment without text.
TwinExtra ==
    /\ pc = "read"
    /\ twin.page # <<>>
    /\ \E t \in TwinTops, l \in TwinLefts, txt \in BlankTexts :
         twin' = [twin EXCEPT !.extra = <<TwinItem(t, l, txt, 0)>>]
    /\ pc' = "ready"
    /\ UNCHANGED <<page, areas, patterns, text_in_lines, error, last, frame>>

\* The two calls of group().
TwinGroup ==
    /\ pc = "ready"
    /\ twin' = [twin EXCEPT
                  !.without = group(<<>>, patterns, twin.page),
                  !.with = group(<<>>, patterns, twin.page \o twin.extra)]
    /\ pc' = "grouped"
    /\ UNCHANGED <<page, areas, patterns, text_in_lines, error, last, frame>>

NextTwin ==
    \/ TwinRead
    \/ TwinExtra
    \/ TwinGroup

SpecTwin == InitTwin /\ [][NextTwin]_vars

(***************************************************************************)
(* Properties.                                                             *)
(***************************************************************************)
HasType(x) == "type" \in DOMAIN x.props
LineItems(ls) == Flatten(ls)
Occurrences(seq, x) == Cardinality({k \in 1..Len(seq) : seq[k] = x})
AssignedLines == {<<a, n>> \in (1..Len(areas)) \X (1..MaxItems) :
                    areas[a].assigned /\ n <= Len(areas[a].lines)}

\* C1 (as claimed): when calc_lines returns, every input fragment is in
\* exactly one returned line, once, and the lines hold as many fragments as
\* were given.
C1_Partition ==
    pc = "returned" =>
        /\ Len(LineItems(frame.result)) = Len(frame.items)
        /\ \A k \in 1..Len(frame.items) :
             Occurrences(LineItems(frame.result), frame.items[k]) = 1

\* C2 (as claimed): in every line of every area that group() has finished,
\* the fragments are in non-decreasing order of left.
C2_LeftOrder ==
    \A an \in AssignedLines :
        LET line == areas[an[1]].lines[an[2]]
        IN  \A j \in 1..(Len(line) - 1) : line[j].left <= line[j + 1].left

\* C2 (amended): in every line of every area that group() has finished (each
\* the result of calc_lines on the area's items), the fragments are in
\* non-decreasing order of (top, left): by top, and by left among equal tops.
C2_TopLeftOrder ==
    \A an \in AssignedLines :
        LET line == areas[an[1]].lines[an[2]]
        IN  \A j \in 1..(Len(line) - 1) :
              \/ line[j].top < line[j + 1].top
              \/ line[j].top = line[j + 1].top /\ line[j].left <= line[j + 1].left

\* C2 witness: a finished line in which a fragment further right comes
\* before one further left, because it starts higher.
C2_Witness ==
    \E an \in AssignedLines :
        LET line == areas[an[1]].lines[an[2]]
        IN  \E j \in 1..(Len(line) - 1) :
              line[j].top < line[j + 1].top /\ line[j].left > line[j + 1].left

\* C3: when merge_item adds a fragment with type T to an existing area, that
\* area's type is T; and when no existing area has type T, the fragment goes
\* to a new area, appended to the list.
C3_TypeIsolation ==
    (last.kind = "merged" /\ HasType(last.item)) =>
        /\ last.target # 0 =>
             GetProp(last.before[last.target].props, "type") = last.item.props["type"]
        /\ (\A k \in 1..Len(last.before) :
               GetProp(last.before[k].props, "type") # last.item.props["type"]) =>
             /\ last.target = 0
             /\ Len(areas) = Len(last.before) + 1

\* C3 witness: a typed fragment has been added to an existing area although
\* another area, of another type or of none, was there.
C3_Witness ==
    /\ last.kind = "merged"
    /\ HasType(last.item)
    /\ last.target # 0
    /\ \E k \in 1..Len(last.before) :
         GetProp(last.before[k].props, "type") # last.item.props["type"]

\* C4 (as claimed): merge_item never adds a fragment without a type to an
\* area whose type is set, and every area holds either typed fragments of
\* one type only or untyped fragments only.
C4_Converse ==
    /\ (last.kind = "merged" /\ ~HasType(last.item) /\ last.target # 0) =>
          ~HasType(last.before[last.target])
    /\ \A a \in 1..Len(areas) :
         \A i, j \in 1..Len(areas[a].items) :
            GetProp(areas[a].items[i].props, "type") =
            GetProp(areas[a].items[j].props, "type")

\* C4 (amended): an area's type, when set, is the type of its first
\* fragment; every typed fragment of an area has the area's type; and an
\* area without a type holds untyped fragments only.  (Untyped fragments may
\* be in a typed area.)
C4_TypedFragmentsAgree ==
    \A a \in 1..Len(areas) :
        /\ GetProp(areas[a].props, "type") = GetProp(areas[a].items[1].props, "type")
        /\ \A i \in 1..Len(areas[a].items) :
              HasType(areas[a].items[i]) =>
                 areas[a].items[i].props["type"] = GetProp(areas[a].props, "type")

\* C4 witness: merge_item has just added an untyped fragment to an area
\* whose type is set.
C4_Witness ==
    /\ last.kind = "merged"
    /\ ~HasType(last.item)
    /\ last.target # 0
    /\ HasType(last.before[last.target])
    /\ areas[last.target].items[Len(areas[last.target].items)] = last.item

\* C5: every area's box is the smallest box that holds its items, and an
\* add never makes it smaller.
SetMin(S) == CHOOSE x \in S : \A y \in S : x <= y
SetMax(S) == CHOOSE x \in S : \A y \in S : x >= y
C5_BoundingBox ==
    /\ \A a \in 1..Len(areas) :
         LET its == {areas[a].items[i] : i \in 1..Len(areas[a].items)}
         IN  /\ areas[a].top = SetMin({it.top : it \in its})
             /\ areas[a].left = SetMin({it.left : it \in its})
             /\ areas[a].bottom = SetMax({it.top + it.height : it \in its})
             /\ areas[a].right = SetMax({it.left + it.width : it \in its})
    /\ (last.kind = "merged" /\ last.target # 0) =>
         /\ areas[last.target].top <= last.before[last.target].top
         /\ areas[last.target].left <= last.before[last.target].left
         /\ areas[last.target].bottom >= last.before[last.target].bottom
         /\ areas[last.target].right >= last.before[last.target].right

\* C5 witness: an add has left the bottom edge where an earlier, lower item
\* put it, and moved the top edge up.
C5_Witness ==
    /\ last.kind = "merged"
    /\ last.target # 0
    /\ areas[last.target].bottom > last.item.top + last.item.height
    /\ areas[last.target].top < last.before[last.target].top

\* C6 (as claimed): the fragment without text is in no area and no line, and
\* the areas are those that group() makes of the page without it.
InAreas(as, id) ==
    \E a \in 1..Len(as) :
        \/ \E i \in 1..Len(as[a].items) : as[a].items[i].id = id
        \/ \E i \in 1..Len(LineItems(as[a].lines)) : LineItems(as[a].lines)[i].id = id
C6_NoEffect ==
    pc = "grouped" /\ twin.extra # <<>> =>
        /\ ~InAreas(twin.with, twin.extra[1].id)
        /\ twin.with = twin.without

\* C7 (as claimed): calc_lines does not return normally when the while loop
\* has run out of bands for some item.
C7_FailsLoudly ==
    pc = "returned" => frame.st.exhausted = <<>>

\* C8 (as claimed): a call of clear_areas returns, and leaves no area.
C8_ClearAreas ==
    last.kind = "clear_areas" => error = None /\ areas = <<>>

\* C9: merge_item decides as the reference does.  The areas eligible for an
\* item are all of them, or those of the item's type if it has one; the
\* candidate is the eligible area with the least total gap, the earliest of
\* them on a tie; the item is added to it when its horizontal gap is at most
\* the item's font size and its vertical gap at most the item's height;
\* otherwise, or with no eligible area, a new area holding the item alone is
\* appended.  No other area changes.
Eligible(as, item) ==
    {k \in 1..Len(as) : HasType(item) => GetProp(as[k].props, "type") = item.props["type"]}
TotalGap(area, item) == hdist(area, item) + vdist(area, item)
Candidate(as, item) ==
    CHOOSE k \in Eligible(as, item) :
        \A j \in Eligible(as, item) :
            \/ TotalGap(as[k], item) < TotalGap(as[j], item)
            \/ TotalGap(as[k], item) = TotalGap(as[j], item) /\ k <= j
RefTarget(as, item) ==
    IF Eligible(as, item) = {} THEN 0
    ELSE LET c == Candidate(as, item)
         IN  IF hdist(as[c], item) <= item.size /\ vdist(as[c], item) <= item.height
             THEN c ELSE 0
C9_ReferenceDecision ==
    (pc = "grouping" /\ last.kind = "merged") =>
        /\ last.target = RefTarget(last.before, last.item)
        /\ IF last.target = 0
           THEN /\ Len(areas) = Len(last.before) + 1
                /\ areas[Len(areas)].items = <<last.item>>
           ELSE /\ Len(areas) = Len(last.before)
                /\ areas[last.target].items =
                      Append(last.before[last.target].items, last.item)
        /\ \A k \in 1..Len(last.before) : k # last.target => areas[k] = last.before[k]

\* C9 witness: two eligible areas were at the same, least, total gap from the
\* item and it was added to the earlier one.
C9_Witness ==
    /\ pc = "grouping"
    /\ last.kind = "merged"
    /\ last.target # 0
    /\ \E j \in Eligible(last.before, last.item) :
         /\ j > last.target
         /\ TotalGap(last.before[j], last.item) =
               TotalGap(last.before[last.target], last.item)

\* C10: every area's grab is [0, r, 0, 0], r being the rhsfollow of the item
\* added to it last, or 0 if that item has none.
C10_GrabOfLastItem ==
    \A a \in 1..Len(areas) :
        LET lastitem == areas[a].items[Len(areas[a].items)]
        IN  areas[a].grab =
               <<0, IF "rhsfollow" \in DOMAIN lastitem.props
                    THEN lastitem.props["rhsfollow"] ELSE 0, 0, 0>>

\* C10 witness: an area whose grab is back to 0 although an earlier item of
\* it has a rhsfollow.
C10_Witness ==
    \E a \in 1..Len(areas) :
        /\ areas[a].grab = <<0, 0, 0, 0>>
        /\ \E i \in 1..Len(areas[a].items) : "rhsfollow" \in DOMAIN areas[a].items[i].props

\* The entries of the sweep's log made by the containment test, and the
\* returned lines they were appended to.
ContainedEntries == {k \in 1..Len(frame.log) : frame.log[k].how = "contained"}
BandLines == {frame.log[k].group : k \in ContainedEntries}

\* C11 (as claimed): each band yields one line.  All the items that the sweep
\* of calc_lines placed by the containment test at one band are in one and the
\* same returned line; the returned lines that were not made by the
\* item-above-band branch are no more than the bands; and they appear in the
\* order of their bands.
C11_OneLinePerBand ==
    pc = "returned" =>
        /\ \A i, j \in ContainedEntries :
              frame.log[i].band = frame.log[j].band
                  => frame.log[i].group = frame.log[j].group
        /\ Cardinality(BandLines) <= Len(frame.lines)
        /\ \A i, j \in ContainedEntries :
              frame.log[i].group < frame.log[j].group
                  => frame.log[i].band < frame.log[j].band

====
